---- MODULE Spec2Model ----
(***************************************************************************)
(* Batch enrichment of a peptide table with remote predictions:            *)
(* APIManager (src/api_manager.py) and APIClientManager / IEDBClient /     *)
(* UniProtClient (src/api_client.py).                                      *)
(*                                                                         *)
(* One enrich_dataframe call is modelled: the orchestrator runs one batch  *)
(* per enabled service; a batch submits one job per row to a               *)
(* ThreadPoolExecutor of max_workers threads; each job sleeps              *)
(* request_delay and then calls the adapter of the service; the calling    *)
(* thread collects the futures as they complete.                           *)
(*                                                                         *)
(* Four specifications share the definitions:                              *)
(*   Spec        enrich_dataframe with every step of every batch call;     *)
(*   BatchSpec   one batch call, step by step;                             *)
(*   EnrichSpec  enrich_dataframe with one step per service block, the     *)
(*               batch call summarised by BatchCall;                       *)
(*   AdapterSpec one adapter call on any network exchange.                 *)
(*                                                                         *)
(* Optional values (Python None / a value) are sets: {} is None, {v} is v. *)
(* A missing pandas cell (None or NaN, both isna()) is {} as well.         *)
(* Time is discrete: one Tick is one unit of request_delay.                *)
(***************************************************************************)
EXTENDS Integers, Sequences, FiniteSets, TLC

\* ------------------------------------------------------------------ bounds
MaxRows == 2
MaxWorkers == 2
MaxDelay == 1
MaxScore == 1
MaxLen == 2
MaxTimeout == 2

\* --------------------------------------------------------------- data sets
Keys == 1..MaxRows
Scores == 1..MaxScore
Impls == {"APIManager", "APIClientManager"}
Services == <<"immunogenicity", "affinity", "uniprot">>
ServiceSet == {Services[i] : i \in 1..Len(Services)}
Accessions == {"", "P1"}

None == {}
Some(v) == {v}

\* the score range accepted by the free-text fallback of the immunogenicity
\* adapter: 0 <= score <= 1
ScoreLow == 0
ScoreHigh == 1

\* Peptides are opaque keys, so a list of peptides is taken up to renaming:
\* the first peptide is key 1 and every new peptide is the next unused key.
RECURSIVE MaxOf(_)
MaxOf(p) == IF Len(p) = 0 THEN 0
            ELSE LET m == MaxOf(SubSeq(p, 1, Len(p) - 1))
                 IN  IF p[Len(p)] > m THEN p[Len(p)] ELSE m
FirstUse(p) == \A i \in 1..Len(p) : p[i] <= MaxOf(SubSeq(p, 1, i - 1)) + 1

Range(f) == {f[i] : i \in DOMAIN f}
SeqsUpTo(S, n) == UNION {[1..m -> S] : m \in 0..n}

\* ------------------------------------------------- the network exchange
\* A field of a JSON payload: absent, present but not convertible by float(),
\* or present with a number.
Absent == [present |-> FALSE, numeric |-> FALSE, v |-> 0]
Bad == [present |-> TRUE, numeric |-> FALSE, v |-> 0]
Num(n) == [present |-> TRUE, numeric |-> TRUE, v |-> n]
Fields == {Absent, Bad} \cup {Num(n) : n \in Scores}

\* What the requests call does: raises Timeout, raises ConnectionError,
\* answers with a non-2xx status (raise_for_status raises HTTPError) or
\* answers 2xx with a body.
NetFailures == {"timeout", "connerr", "http"}

\* IEDB body: json is "invalid" (response.json() raises), "scalar" (a JSON
\* number, boolean or null: the `in` test raises TypeError) or "dict" (a
\* container; a list or a string behaves as a dict without the fields);
\* text is the first regular-expression match in response.text.
IEDBBodies(texts) ==
    [net : {"ok"}, json : {"invalid", "scalar"}, primary : {Absent},
     secondary : {Absent}, text : texts]
    \cup [net : {"ok"}, json : {"dict"}, primary : Fields,
          secondary : Fields, text : texts]
\* nothing is received after a timeout or a transport error; a non-2xx
\* answer has a body like any other
IEDBFailures(texts) ==
    [net : {"timeout", "connerr"}, json : {"invalid"}, primary : {Absent},
     secondary : {Absent}, text : {Absent}]
    \cup {[b EXCEPT !.net = "http"] : b \in IEDBBodies(texts)}
\* r'[\d.]+' also matches "." or "1.2.3", which float() rejects, and numbers
\* above the accepted range
ImmunogenicityTexts == Fields \cup {Num(ScoreHigh + 1)}
ImmunogenicityResponses ==
    IEDBFailures(ImmunogenicityTexts) \cup IEDBBodies(ImmunogenicityTexts)
\* r'(\d+\.?\d*)\s*nM' captures only text float() accepts
AffinityTexts == {Absent} \cup {Num(n) : n \in Scores}
AffinityResponses == IEDBFailures(AffinityTexts) \cup IEDBBodies(AffinityTexts)

\* UniProt body: results is "absent", "empty", "malformed" (first entry is
\* not a mapping: .get raises AttributeError) or "entry"; accession is the
\* primaryAccession of the first entry, {} when the entry has none.
UniProtBodies ==
    [net : {"ok"}, json : {"invalid", "scalar"}, results : {"absent"}, accession : {None}]
    \cup [net : {"ok"}, json : {"dict"}, results : {"absent", "empty", "malformed"}, accession : {None}]
    \cup [net : {"ok"}, json : {"dict"}, results : {"entry"},
          accession : {None} \cup {Some(a) : a \in Accessions}]
UniProtResponses ==
    [net : {"timeout", "connerr"}, json : {"invalid"}, results : {"absent"}, accession : {None}]
    \cup {[b EXCEPT !.net = "http"] : b \in UniProtBodies}
    \cup UniProtBodies

Responses(service) ==
    CASE service = "immunogenicity" -> ImmunogenicityResponses
      [] service = "affinity" -> AffinityResponses
      [] service = "uniprot" -> UniProtResponses
      [] OTHER -> {}

\* ------------------------------------------------------------- adapters
\* The result of running a piece of code: it returns val or it raises exc.
Return(val) == [kind |-> "return", exc |-> "none", val |-> val]
Raise(exc) == [kind |-> "raise", exc |-> exc, val |-> None]

\* variant: the request without raise_for_status()
RequestUnchecked(r) ==
    IF r.net \in {"timeout", "connerr"} THEN Raise("RequestException") ELSE Return(None)
\* session.post / session.get followed by raise_for_status()
Request(r) ==
    IF r.net \in NetFailures THEN Raise("RequestException") ELSE Return(None)

\* float(x) of a field
Float(f) == IF f.numeric THEN Return(Some(f.v)) ELSE Raise("ValueError")

\* the body of the inner try: result = response.json(); if primary in
\* result: return float(...) elif secondary in result: return float(...).
\* kind "fall" is falling through the if/elif without returning.
StructuredParse(r) ==
    IF r.json = "invalid" THEN Raise("JSONDecodeError")
    ELSE IF r.json = "scalar" THEN Raise("TypeError")
    ELSE IF r.primary.present THEN Float(r.primary)
    ELSE IF r.secondary.present THEN Float(r.secondary)
    ELSE [kind |-> "fall", exc |-> "none", val |-> None]

\* the bare except of _predict_immunogenicity_iedb: scan the text, accept
\* the first match when it lies in [0, 1]
ImmunogenicityFallback(r) ==
    IF r.text.present
    THEN LET score == Float(r.text)
         IN  IF score.kind = "raise" THEN score
             ELSE IF \A s \in score.val : ScoreLow <= s /\ s <= ScoreHigh
                  THEN score
                  ELSE [kind |-> "fall", exc |-> "none", val |-> None]
    ELSE [kind |-> "fall", exc |-> "none", val |-> None]

\* the bare except of _predict_affinity_iedb: the first "<number> nM"
AffinityFallback(r) ==
    IF r.text.present THEN Float(r.text)
    ELSE [kind |-> "fall", exc |-> "none", val |-> None]

\* try: <structured> except: <fallback>; then `return None`.  fallback is
\* how the except block ends on this response.
ParseWithFallback(r, fallback) ==
    LET s == StructuredParse(r)
        p == IF s.kind = "raise" THEN fallback ELSE s
    IN  IF p.kind = "fall" THEN Return(None) ELSE p

\* variant: only except RequestException
CatchRequestOnly(res) ==
    IF res.kind = "raise" /\ res.exc = "RequestException" THEN Return(None) ELSE res
\* the handlers that close every adapter:
\* except RequestException: return None / except Exception: return None
CatchAll(res) == IF res.kind = "raise" THEN Return(None) ELSE res

_predict_immunogenicity_iedb(r) ==
    CatchAll(IF Request(r).kind = "raise" THEN Request(r)
             ELSE ParseWithFallback(r, ImmunogenicityFallback(r)))

_predict_affinity_iedb(r) ==
    CatchAll(IF Request(r).kind = "raise" THEN Request(r)
             ELSE ParseWithFallback(r, AffinityFallback(r)))

NotFound == [found |-> FALSE]
Found(a) == [found |-> TRUE, uniprot_id |-> a]

\* result.get('primaryAccession', '')
Accession(r) == IF r.accession = None THEN "" ELSE CHOOSE a \in r.accession : TRUE

_search_uniprot(r) ==
    CatchAll(IF Request(r).kind = "raise" THEN Request(r)
             ELSE IF r.json = "invalid" THEN Raise("JSONDecodeError")
             ELSE IF r.json = "scalar" THEN Raise("TypeError")
             ELSE IF r.results = "malformed" THEN Raise("AttributeError")
             ELSE IF r.results = "entry" THEN Return(Some(Found(Accession(r))))
             ELSE Return(Some(NotFound)))

\* the adapter a job of the service calls; IEDBClient.predict_immunogenicity,
\* IEDBClient.predict_affinity and UniProtClient.search_sequence are the same
\* code as the APIManager methods
Adapter(service, r) ==
    CASE service = "immunogenicity" -> _predict_immunogenicity_iedb(r)
      [] service = "affinity" -> _predict_affinity_iedb(r)
      [] service = "uniprot" -> _search_uniprot(r)

\* what the adapter of a service can answer, over all network exchanges
ImmunogenicityOutcomes == {Adapter("immunogenicity", r) : r \in ImmunogenicityResponses}
AffinityOutcomes == {Adapter("affinity", r) : r \in AffinityResponses}
\* in the batches every UniProt entry carries its primaryAccession
UniProtOutcomes ==
    {Adapter("uniprot", r) : r \in {u \in UniProtResponses :
                                       u.results = "entry" => u.accession = Some("P1")}}
Outcomes(service) ==
    CASE service = "immunogenicity" -> ImmunogenicityOutcomes
      [] service = "affinity" -> AffinityOutcomes
      [] service = "uniprot" -> UniProtOutcomes
      [] OTHER -> {}

\* ------------------------------------------------------------ the tables
\* A table is a function from column names to columns; every column is a
\* sequence with one cell per row.
AffinityCells == {None, Some(1)}
\* the affinity_nm columns of n rows: the first m rows carry a value
AffinityColumns(n) == {[i \in 1..n |-> IF i <= m THEN Some(1) ELSE None] : m \in 0..n}
PeptideLists == {p \in SeqsUpTo(Keys, MaxRows) : FirstUse(p)}
PeptideTables ==
    {[peptide |-> p] : p \in PeptideLists}
    \cup UNION {{[peptide |-> p, affinity_nm |-> a] : a \in AffinityColumns(Len(p))} :
                p \in PeptideLists}
\* tables without the key column
OtherTables ==
    {[affinity_nm |-> a] : a \in AffinityColumns(0) \cup AffinityColumns(1)}
Inputs == PeptideTables \cup OtherTables

columns(t) == DOMAIN t
NumRows(t) == IF columns(t) = {} THEN 0 ELSE Len(t[CHOOSE c \in columns(t) : TRUE])

\* variant: an assignment that skips a None value
PutIfValue(m, k, v) ==
    IF v = None THEN m ELSE [x \in DOMAIN m \cup {k} |-> IF x = k THEN v ELSE m[x]]
\* variant: dict.setdefault, an existing entry is kept
PutIfAbsent(m, k, v) ==
    IF k \in DOMAIN m THEN m ELSE [x \in DOMAIN m \cup {k} |-> IF x = k THEN v ELSE m[x]]
\* variant: the name is bound to a new dict that holds the one entry
PutReplace(m, k, v) == [x \in {k} |-> v]
\* dict item assignment m[k] = v
Put(m, k, v) == [x \in DOMAIN m \cup {k} |-> IF x = k THEN v ELSE m[x]]
\* the empty dict
EmptyDict == [x \in {} |-> None]
\* the dict comprehension {pep: None for pep in peptides}
AllNone(peps) == [k \in Range(peps) |-> None]

\* variant: a join that keeps an existing column and adds the new one
\* under a suffixed name
SetColumnJoin(t, name, col) ==
    IF name \in columns(t)
    THEN [c \in columns(t) \cup {name \o "_y"} |-> IF c = name \o "_y" THEN col ELSE t[c]]
    ELSE [c \in columns(t) \cup {name} |-> IF c = name THEN col ELSE t[c]]
\* df_result[name] = column
SetColumn(t, name, col) == [c \in columns(t) \cup {name} |-> IF c = name THEN col ELSE t[c]]

\* one cell of Series.map(dict): the value of the key, a missing cell when
\* the key is not in the dict or its value is None
MapCell(m, p) == IF p \in DOMAIN m THEN m[p] ELSE None
\* df_result['peptide'].map(scores)
MapColumn(t, m) == [i \in 1..Len(t["peptide"]) |-> MapCell(m, t["peptide"][i])]
\* df_result[name] = None / False / ''
ConstColumn(t, v) == [i \in 1..NumRows(t) |-> v]

\* uniprot_info.get(p, {}).get(field, default) if uniprot_info.get(p) else default
UniProtCell(m, p, field, default) ==
    IF p \in DOMAIN m /\ m[p] # None
    THEN LET info == CHOOSE d \in m[p] : TRUE
         IN  IF field \in DOMAIN info THEN info[field] ELSE default
    ELSE default
UniProtColumn(t, m, field, default) ==
    [i \in 1..Len(t["peptide"]) |-> UniProtCell(m, t["peptide"][i], field, default)]

\* variant: the merge keeps only the rows whose key has a value
MergeInner(t, s, m) ==
    LET keep == {i \in 1..Len(t["peptide"]) : MapCell(m, t["peptide"][i]) # None}
        row(k) == CHOOSE i \in keep : Cardinality({x \in keep : x <= i}) = k
        kept == [c \in columns(t) |-> [k \in 1..Cardinality(keep) |-> t[c][row(k)]]]
    IN  CASE s = "immunogenicity" -> SetColumn(kept, "iedb_immunogenicity", MapColumn(kept, m))
          [] s = "affinity" -> SetColumn(kept, "iedb_affinity_nm", MapColumn(kept, m))
          [] s = "uniprot" ->
                SetColumn(SetColumn(kept, "uniprot_found", UniProtColumn(kept, m, "found", FALSE)),
                          "uniprot_id", UniProtColumn(kept, m, "uniprot_id", ""))
\* variant: the affinity scores are assigned to the immunogenicity column
MergeSharedColumn(t, s, m) ==
    CASE s = "immunogenicity" -> SetColumn(t, "iedb_immunogenicity", MapColumn(t, m))
      [] s = "affinity" -> SetColumn(t, "iedb_immunogenicity", MapColumn(t, m))
      [] s = "uniprot" ->
            SetColumn(SetColumn(t, "uniprot_found", UniProtColumn(t, m, "found", FALSE)),
                      "uniprot_id", UniProtColumn(t, m, "uniprot_id", ""))
\* the assignments that merge the results of one service into df_result
MergeColumns(t, s, m) ==
    CASE s = "immunogenicity" -> SetColumn(t, "iedb_immunogenicity", MapColumn(t, m))
      [] s = "affinity" -> SetColumn(t, "iedb_affinity_nm", MapColumn(t, m))
      [] s = "uniprot" ->
            SetColumn(SetColumn(t, "uniprot_found", UniProtColumn(t, m, "found", FALSE)),
                      "uniprot_id", UniProtColumn(t, m, "uniprot_id", ""))

\* the except branches of APIManager.enrich_dataframe
FailColumns(t, s) ==
    CASE s = "immunogenicity" -> SetColumn(t, "iedb_immunogenicity", ConstColumn(t, None))
      [] s = "affinity" -> SetColumn(t, "iedb_affinity_nm", ConstColumn(t, None))
      [] s = "uniprot" ->
            SetColumn(SetColumn(t, "uniprot_found", ConstColumn(t, FALSE)),
                      "uniprot_id", ConstColumn(t, ""))

\* df['affinity_nm'].isna().all()
AllNa(col) == \A i \in 1..Len(col) : col[i] = None

\* variant: every block runs
EnabledAlways(s, t, uniprot) == s \in ServiceSet
\* variant: the affinity block runs only without an affinity_nm column
EnabledByColumn(s, t, uniprot) ==
    CASE s = "immunogenicity" -> TRUE
      [] s = "affinity" -> "affinity_nm" \notin columns(t)
      [] s = "uniprot" -> uniprot
\* whether enrich_dataframe dispatches the service
Enabled(s, t, uniprot) ==
    CASE s = "immunogenicity" -> TRUE
      [] s = "affinity" -> IF "affinity_nm" \notin columns(t) THEN TRUE
                           ELSE AllNa(t["affinity_nm"])
      [] s = "uniprot" -> uniprot

\* variant: the annotation block is entered again when it is done
AfterRetry(s) ==
    CASE s = "immunogenicity" -> "affinity"
      [] s = "affinity" -> "uniprot"
      [] s = "uniprot" -> "uniprot"
\* the statement that follows the block of the service
After(s) ==
    CASE s = "immunogenicity" -> "affinity"
      [] s = "affinity" -> "uniprot"
      [] s = "uniprot" -> "done"

\* ------------------------------------------------------------------ state
VARIABLES
    impl,             \* the class of the manager
    max_workers,      \* self.max_workers
    request_delay,    \* self.request_delay, in ticks
    include_uniprot,  \* argument of enrich_dataframe
    df,               \* argument of enrich_dataframe
    epc,              \* position of enrich_dataframe
    peptides,         \* local of enrich_dataframe, argument of the batch
    df_result,        \* local of enrich_dataframe
    service,          \* the service of the running batch call
    bpc,              \* position of the batch call
    submitted,        \* number of executor.submit calls done
    jst,              \* state of every job of the batch
    running,          \* the job every worker thread runs, 0 when idle
    slept,            \* ticks a job has spent in time.sleep
    fut,              \* outcome held by the future of every job
    results,          \* local of the batch call
    calls,            \* observer: adapter invocations of a job
    since,            \* observer: ticks since the latest adapter call of a worker
    exchange,         \* observer: the network exchange of an adapter call made
                      \* on its own, {} before the call
    outcome,          \* observer: how that adapter call ended
    maps,             \* the mapping every batch call returned, by service,
                      \* when the column assignments are taken on their own
    merged,           \* observer: the services whose columns were assigned,
                      \* in the order of the assignments
    dispatched,       \* observer: the services whose batch was called, in
                      \* the order of the calls
    now,              \* observer: the ticks elapsed in a batch call whose
                      \* time is measured
    min_length,       \* argument of validate_peptides
    max_length,       \* argument of validate_peptides
    df_valid,         \* how validate_peptides ended, {} before the call
    age               \* observer: for every job whose adapter call started
                      \* before the latest tick, the ticks since that start,
                      \* in a batch call whose call times are recorded

cfgVars == <<impl, max_workers, request_delay, include_uniprot, df>>
enrichVars == <<epc, peptides, df_result>>
batchVars == <<service, bpc, submitted, jst, running, slept, fut, results>>
obsVars == <<calls, since>>
callVars == <<exchange, outcome>>
mergeVars == <<maps, merged>>
valVars == <<min_length, max_length, df_valid>>
vars == <<cfgVars, enrichVars, batchVars, obsVars, callVars, mergeVars, dispatched, now, valVars, age>>

Jobs == 1..Len(peptides)
\* variant: a pool of one thread, whatever max_workers is
WorkersSerial == 1..(IF max_workers >= 1 THEN 1 ELSE 0)
\* variant: a pool of twice max_workers threads
WorkersDouble == 1..(2 * max_workers)
Workers == 1..max_workers
Pending == [kind |-> "pending", exc |-> "none", val |-> None]
Min(a, b) == IF a <= b THEN a ELSE b

\* variant: every future is mapped to the first peptide
future_to_first(j) == peptides[1]
\* future_to_peptide[future]
future_to_peptide(j) == peptides[j]

\* the jobs that run in a worker thread
Executing == {j \in DOMAIN jst : jst[j] \in {"pacing", "calling"}}
Queued == {j \in DOMAIN jst : jst[j] = "queued"}

\* The clock of a worker is observed only while the worker can still start
\* an adapter call: a job is waiting to be run, or the worker is in the
\* pacing wait of its job.  Otherwise it is stopped (-1, as before the first
\* call).
Observed(clock, st, run) ==
    [w \in DOMAIN clock |->
        IF \/ \E j \in DOMAIN st : st[j] \in {"new", "queued"}
           \/ (run[w] # 0 /\ st[run[w]] = "pacing")
        THEN clock[w] ELSE -1]

\* validate_peptides is not called
NoValidation == min_length = 8 /\ max_length = 14 /\ df_valid = {}

\* no batch call is active
NoBatch ==
    /\ service = "none" /\ bpc = "idle" /\ submitted = 0
    /\ jst = <<>> /\ running = <<>> /\ slept = <<>> /\ fut = <<>>
    /\ results = EmptyDict
NoBatchNext ==
    /\ service' = "none" /\ bpc' = "idle" /\ submitted' = 0
    /\ jst' = <<>> /\ running' = <<>> /\ slept' = <<>> /\ fut' = <<>>
    /\ results' = EmptyDict

Init ==
    /\ impl \in Impls
    /\ max_workers \in 0..MaxWorkers
    /\ request_delay \in -1..MaxDelay
    /\ include_uniprot \in BOOLEAN
    /\ df \in Inputs
    /\ epc = "start" /\ peptides = <<>> /\ df_result = EmptyDict
    /\ NoBatch
    /\ calls = <<>> /\ since = <<>>
    /\ exchange = {} /\ outcome = {}
    /\ maps = <<>> /\ merged = <<>> /\ dispatched = <<>>
    /\ now = 0
    /\ NoValidation
    /\ age = <<>>

\* ------------------------------------------------------ enrich_dataframe
\* if 'peptide' not in df.columns: raise ValueError
RejectTable ==
    /\ epc = "start"
    /\ "peptide" \notin columns(df)
    /\ epc' = "raised"
    /\ UNCHANGED <<age, valVars, now, callVars, mergeVars, dispatched, cfgVars, peptides, df_result, batchVars, obsVars>>

\* variant: a table without the key column gets one, numbered by row, and
\* is enriched like any other
EnrichStartDefaultKey ==
    /\ epc = "start"
    /\ df_result' = IF "peptide" \in columns(df) THEN df
                    ELSE SetColumn(df, "peptide", [i \in 1..NumRows(df) |-> i])
    /\ peptides' = df_result'["peptide"]
    /\ epc' = "immunogenicity"
    /\ UNCHANGED <<age, valVars, now, callVars, mergeVars, dispatched, cfgVars, batchVars, obsVars>>

\* variant: only the key column of the input is taken over
EnrichStartKeysOnly ==
    /\ epc = "start"
    /\ "peptide" \in columns(df)
    /\ df_result' = [c \in {"peptide"} |-> df[c]]
    /\ peptides' = df["peptide"]
    /\ epc' = "immunogenicity"
    /\ UNCHANGED <<age, valVars, now, callVars, mergeVars, dispatched, cfgVars, batchVars, obsVars>>

\* df_result = df.copy(); peptides = df_result['peptide'].tolist()
EnrichStart ==
    /\ epc = "start"
    /\ "peptide" \in columns(df)
    /\ df_result' = df
    /\ peptides' = df["peptide"]
    /\ epc' = "immunogenicity"
    /\ UNCHANGED <<age, valVars, now, callVars, mergeVars, dispatched, cfgVars, batchVars, obsVars>>

\* the condition of the block of a service is false: the block is skipped
SkipService(s) ==
    /\ epc = s /\ bpc = "idle"
    /\ ~Enabled(s, df_result, include_uniprot)
    /\ epc' = After(s)
    /\ UNCHANGED <<age, valVars, now, callVars, mergeVars, dispatched, cfgVars, peptides, df_result, batchVars, obsVars>>

\* --------------------------------------------------------- the batch call
\* ThreadPoolExecutor(max_workers=...) raises ValueError when max_workers
\* is not positive.  APIManager catches it around the whole batch and
\* returns {pep: None for pep in peptides}; APIClientManager has no handler
\* and the batch call raises.
PoolCreation(n) == IF n <= 0 THEN Raise("ValueError") ELSE Return(None)

BatchExcept(manager, peps) ==
    IF manager = "APIManager"
    THEN [pc |-> "returned", results |-> AllNone(peps)]
    ELSE [pc |-> "raised", results |-> EmptyDict]

\* self.predict_..._batch(peptides, ...) is called: results = {}
BatchStart(s) ==
    /\ epc = s /\ bpc = "idle"
    /\ Enabled(s, df_result, include_uniprot)
    /\ service' = s
    /\ submitted' = 0
    /\ results' = EmptyDict
    /\ bpc' = "called"
    /\ dispatched' = Append(dispatched, s)
    /\ UNCHANGED <<age, valVars, now, callVars, mergeVars, cfgVars, enrichVars, jst, running, slept, fut, obsVars>>

\* with ThreadPoolExecutor(max_workers=self.max_workers) as executor: the
\* pool is created, or the constructor raises and the call ends
CreatePool ==
    /\ bpc = "called"
    /\ IF PoolCreation(max_workers).kind = "raise"
       THEN /\ bpc' = BatchExcept(impl, peptides).pc
            /\ results' = BatchExcept(impl, peptides).results
            /\ UNCHANGED <<jst, running, slept, fut, obsVars>>
       ELSE /\ bpc' = IF Len(peptides) = 0 THEN "collect" ELSE "submit"
            /\ results' = EmptyDict
            /\ jst' = [j \in Jobs |-> "new"]
            /\ running' = [w \in Workers |-> 0]
            /\ slept' = [j \in Jobs |-> 0]
            /\ fut' = [j \in Jobs |-> Pending]
            /\ calls' = [j \in Jobs |-> 0]
            /\ since' = [w \in Workers |-> -1]
    /\ UNCHANGED <<age, valVars, now, callVars, mergeVars, dispatched, cfgVars, enrichVars, service, submitted>>

\* executor.submit(wrapper, args) for the next peptide of the list
Submit ==
    /\ bpc = "submit"
    /\ submitted < Len(peptides)
    /\ jst' = [jst EXCEPT ![submitted + 1] = "queued"]
    /\ submitted' = submitted + 1
    /\ bpc' = IF submitted + 1 = Len(peptides) THEN "collect" ELSE "submit"
    /\ UNCHANGED <<age, valVars, now, callVars, mergeVars, dispatched, cfgVars, enrichVars, service, running, slept, fut, results, obsVars>>

\* time.sleep(request_delay) raises ValueError for a negative length
Sleep(delay) == IF delay < 0 THEN Raise("ValueError") ELSE Return(None)

\* variant: a thread is started for every queued job
IdleAlways(w) == w \in DOMAIN running
\* variant: a worker thread ends after its first job
IdleOnce(w) ==
    /\ running[w] = 0
    /\ \A j \in DOMAIN jst : jst[j] \notin {"pacing", "calling", "finished", "collected"}
\* a worker thread takes work from the queue only between two jobs
Idle(w) == running[w] = 0

\* an idle worker thread takes the oldest queued job and enters the wrapper
StartJob(w) ==
    /\ bpc \in {"submit", "collect"}
    /\ Idle(w)
    /\ Queued # {}
    /\ LET j == CHOOSE q \in Queued : \A o \in Queued : q <= o
       IN  IF Sleep(request_delay).kind = "raise"
           THEN /\ jst' = [jst EXCEPT ![j] = "finished"]
                /\ fut' = [fut EXCEPT ![j] = Sleep(request_delay)]
                /\ UNCHANGED <<running, slept>>
           ELSE /\ jst' = [jst EXCEPT ![j] = "pacing"]
                /\ running' = [running EXCEPT ![w] = j]
                /\ slept' = [slept EXCEPT ![j] = 0]
                /\ UNCHANGED fut
    /\ since' = Observed(since, jst', running')
    /\ UNCHANGED <<age, valVars, now, callVars, mergeVars, dispatched, cfgVars, enrichVars, service, bpc, submitted, results, calls>>

\* one unit of time passes for every sleeping job and every worker
Tick ==
    /\ bpc \in {"submit", "collect"}
    /\ \/ \E j \in DOMAIN jst : jst[j] = "pacing" /\ slept[j] < request_delay
       \/ \E w \in DOMAIN since : since[w] >= 0 /\ since[w] < request_delay
    /\ slept' = [j \in DOMAIN slept |-> IF jst[j] = "pacing"
                                THEN Min(slept[j] + 1, request_delay) ELSE slept[j]]
    /\ since' = Observed([w \in DOMAIN since |->
                              IF since[w] >= 0 THEN Min(since[w] + 1, request_delay)
                              ELSE since[w]], jst, running)
    /\ UNCHANGED <<age, valVars, now, callVars, mergeVars, dispatched, cfgVars, enrichVars, service, bpc, submitted, jst, running, fut,
                   results, calls>>

\* variant: the wrapper does not wait
SleepSkipped(j) == j \in DOMAIN slept
\* the pacing wait of the wrapper is over
SleepOver(j) == slept[j] >= request_delay

\* variant: the wrapper calls the adapter again while a call is under way
CallAdapterRetry(w) ==
    /\ running[w] # 0
    /\ jst[running[w]] \in {"pacing", "calling"}
    /\ SleepOver(running[w])
    /\ jst' = [jst EXCEPT ![running[w]] = "calling"]
    /\ calls' = [calls EXCEPT ![running[w]] = @ + 1]
    /\ since' = Observed([since EXCEPT ![w] = 0], jst', running)
    /\ UNCHANGED <<age, valVars, now, callVars, mergeVars, dispatched, cfgVars, enrichVars, service, bpc, submitted, running, slept, fut,
                   results>>

\* the wrapper leaves time.sleep and calls the adapter
CallAdapter(w) ==
    /\ running[w] # 0
    /\ jst[running[w]] = "pacing"
    /\ SleepOver(running[w])
    /\ jst' = [jst EXCEPT ![running[w]] = "calling"]
    /\ calls' = [calls EXCEPT ![running[w]] = @ + 1]
    /\ since' = Observed([since EXCEPT ![w] = 0], jst', running)
    /\ UNCHANGED <<age, valVars, now, callVars, mergeVars, dispatched, cfgVars, enrichVars, service, bpc, submitted, running, slept, fut,
                   results>>

\* return peptide, score
Wrapper(pep, res) ==
    IF res.kind = "raise" THEN res ELSE Return(<<pep, res.val>>)

\* the network exchange ends, the adapter leaves with res, the wrapper
\* returns and the worker thread sets the future
AdapterReturns(w) ==
    /\ running[w] # 0
    /\ jst[running[w]] = "calling"
    /\ jst' = [jst EXCEPT ![running[w]] = "finished"]
    /\ running' = [running EXCEPT ![w] = 0]
    /\ \E res \in Outcomes(service) :
           fut' = [fut EXCEPT ![running[w]] = Wrapper(peptides[running[w]], res)]
    /\ UNCHANGED <<age, valVars, now, callVars, mergeVars, dispatched, cfgVars, enrichVars, service, bpc, submitted, slept, results,
                   calls, since>>

\* the requests.Session an adapter call of the service posts to: one
\* object per manager, made in __init__ and used by every worker thread
Session(s) == IF s = "uniprot" THEN "uniprot_session" ELSE "iedb_session"
\* the mutable objects the job touches at this moment: the session while it
\* is in its adapter call, nothing while it waits; results is touched by
\* the thread of the as_completed loop alone
Touched(j) == IF jst[j] = "calling" THEN {Session(service)} ELSE {}

\* variant: the outcome is stored under the peptide at the position of its
\* arrival
CollectEntryByArrival(j) ==
    [key |-> peptides[Cardinality({c \in DOMAIN jst : jst[c] = "collected"}) + 1],
     value |-> IF fut[j].kind = "return" THEN fut[j].val[2] ELSE None]
\* one iteration of `for future in as_completed(future_to_peptide)`
CollectEntry(j) ==
    IF fut[j].kind = "return"
    THEN [key |-> fut[j].val[1], value |-> fut[j].val[2]]
    ELSE [key |-> future_to_peptide(j), value |-> None]

Collect(j) ==
    /\ bpc = "collect"
    /\ jst[j] = "finished"
    /\ results' = Put(results, CollectEntry(j).key, CollectEntry(j).value)
    /\ jst' = [jst EXCEPT ![j] = "collected"]
    /\ UNCHANGED <<age, valVars, now, callVars, mergeVars, dispatched, cfgVars, enrichVars, service, bpc, submitted, running, slept, fut,
                   obsVars>>

\* variant: the loop is left after the first future
LoopDoneFirst == \E j \in DOMAIN jst : jst[j] = "collected"
\* as_completed is exhausted when every future was yielded
LoopDone == \A j \in DOMAIN jst : jst[j] = "collected"

\* the with block ends (shutdown waits for the workers); return results
BatchReturn ==
    /\ bpc = "collect"
    /\ LoopDone
    /\ bpc' = "returned"
    /\ UNCHANGED <<age, valVars, now, callVars, mergeVars, dispatched, cfgVars, enrichVars, service, submitted, jst, running, slept, fut,
                   results, obsVars>>

\* ------------------------------------------- back in enrich_dataframe
\* df_result[column] = df_result['peptide'].map(scores)
Merge(s) ==
    /\ epc = s /\ service = s /\ bpc = "returned"
    /\ df_result' = MergeColumns(df_result, s, results)
    /\ epc' = After(s)
    /\ merged' = Append(merged, s)
    /\ NoBatchNext
    /\ calls' = <<>> /\ since' = <<>>
    /\ UNCHANGED <<age, valVars, now, callVars, maps, dispatched, cfgVars, peptides>>

\* the batch call raised: APIManager fills the columns of the service and
\* goes on, APIClientManager lets the exception leave enrich_dataframe
EnrichExcept(manager, t, s) ==
    IF manager = "APIManager"
    THEN [pc |-> After(s), table |-> FailColumns(t, s)]
    ELSE [pc |-> "raised", table |-> t]

BatchRaised(s) ==
    /\ epc = s /\ service = s /\ bpc = "raised"
    /\ epc' = EnrichExcept(impl, df_result, s).pc
    /\ df_result' = EnrichExcept(impl, df_result, s).table
    /\ merged' = IF EnrichExcept(impl, df_result, s).pc = "raised" THEN merged
                 ELSE Append(merged, s)
    /\ NoBatchNext
    /\ calls' = <<>> /\ since' = <<>>
    /\ UNCHANGED <<age, valVars, now, callVars, maps, dispatched, cfgVars, peptides>>

\* variant: the table is handed back from inside the block of a service
EnrichReturnEarly ==
    /\ epc \in ServiceSet \cup {"done"}
    /\ epc' = "returned"
    /\ UNCHANGED <<age, valVars, now, callVars, mergeVars, dispatched, cfgVars, peptides, df_result, batchVars, obsVars>>

\* return df_result
EnrichReturn ==
    /\ epc = "done"
    /\ epc' = "returned"
    /\ UNCHANGED <<age, valVars, now, callVars, mergeVars, dispatched, cfgVars, peptides, df_result, batchVars, obsVars>>

Next ==
    \/ RejectTable
    \/ EnrichStart
    \/ \E s \in ServiceSet : SkipService(s)
    \/ \E s \in ServiceSet : BatchStart(s)
    \/ CreatePool
    \/ Submit
    \/ \E w \in DOMAIN running : StartJob(w)
    \/ Tick
    \/ \E w \in DOMAIN running : CallAdapter(w)
    \/ \E w \in DOMAIN running : AdapterReturns(w)
    \/ \E j \in DOMAIN jst : Collect(j)
    \/ BatchReturn
    \/ \E s \in ServiceSet : Merge(s)
    \/ \E s \in ServiceSet : BatchRaised(s)
    \/ EnrichReturn

Spec == Init /\ [][Next]_vars

\* ---------------------------------------------------- one batch call alone
\* enrich_dataframe is about to call the batch of one service on its list of
\* peptides; BatchSpec follows that call up to its return.
BatchInit ==
    /\ impl \in Impls
    /\ max_workers \in 0..MaxWorkers
    /\ request_delay \in -1..MaxDelay
    /\ include_uniprot = TRUE
    /\ peptides \in PeptideLists
    /\ df = [peptide |-> peptides]
    /\ df_result = df
    /\ epc \in ServiceSet
    /\ NoBatch
    /\ calls = <<>> /\ since = <<>>
    /\ exchange = {} /\ outcome = {}
    /\ maps = <<>> /\ merged = <<>> /\ dispatched = <<>>
    /\ now = 0
    /\ NoValidation
    /\ age = <<>>

BatchNext ==
    \/ \E s \in ServiceSet : BatchStart(s)
    \/ CreatePool
    \/ Submit
    \/ \E w \in DOMAIN running : StartJob(w)
    \/ Tick
    \/ \E w \in DOMAIN running : CallAdapter(w)
    \/ \E w \in DOMAIN running : AdapterReturns(w)
    \/ \E j \in DOMAIN jst : Collect(j)
    \/ BatchReturn

BatchSpec == BatchInit /\ [][BatchNext]_vars

\* The affinity batch under fair scheduling: as long as a thread can take a
\* step (the calling thread, a worker thread with a job to take or a wait
\* to leave, an adapter call that comes back, the clock), a step is taken.
\* progress names the variables of which every step changes one.
FairInit == BatchInit /\ epc = "affinity"

progress == <<bpc, submitted, jst, slept, since>>
Fairness == WF_progress(BatchNext)

FairSpec == FairInit /\ [][BatchNext]_vars /\ Fairness

\* ------------------------------------- enrich_dataframe, batch by batch
\* How a whole batch call can end: what predict_..._batch(peptides, ...)
\* returns or that it raises.  The pool cannot be created; or every job
\* raises in time.sleep and is recorded as None; or every key gets what the
\* adapter returned for it.
BatchCall(manager, n, delay, s, peps) ==
    IF PoolCreation(n).kind = "raise" THEN {BatchExcept(manager, peps)}
    ELSE IF Sleep(delay).kind = "raise"
         THEN {[pc |-> "returned", results |-> AllNone(peps)]}
         ELSE {[pc |-> "returned", results |-> m] :
                   m \in [Range(peps) -> {o.val : o \in Outcomes(s)}]}

\* the block of a service in one step: the batch call and the assignment
\* of its columns, or the handling of its exception
RunBatch(s) ==
    /\ epc = s /\ bpc = "idle"
    /\ Enabled(s, df_result, include_uniprot)
    /\ \E b \in BatchCall(impl, max_workers, request_delay, s, peptides) :
           IF b.pc = "raised"
           THEN /\ epc' = EnrichExcept(impl, df_result, s).pc
                /\ df_result' = EnrichExcept(impl, df_result, s).table
                /\ merged' = IF EnrichExcept(impl, df_result, s).pc = "raised" THEN merged
                             ELSE Append(merged, s)
           ELSE /\ epc' = After(s)
                /\ df_result' = MergeColumns(df_result, s, b.results)
                /\ merged' = Append(merged, s)
    /\ dispatched' = Append(dispatched, s)
    /\ UNCHANGED <<age, valVars, now, callVars, maps, cfgVars, peptides, batchVars, obsVars>>

EnrichNext ==
    \/ RejectTable
    \/ EnrichStart
    \/ \E s \in ServiceSet : SkipService(s)
    \/ \E s \in ServiceSet : RunBatch(s)
    \/ EnrichReturn

EnrichSpec == Init /\ [][EnrichNext]_vars

\* --------------------------- enrich_dataframe, call after call
\* One manager object is used for one call of enrich_dataframe after the
\* other.  The object keeps max_workers, request_delay and its sessions;
\* df_result, peptides and the mappings are locals of a call.  maps holds
\* what the batch calls of the running call returned, dispatched the
\* services the object has called since it was made.

\* the block of a service as a function of the table, the argument and what
\* the batch call of the service did
EnrichBlock(t, s, uniprot, m) ==
    IF ~Enabled(s, t, uniprot) THEN t
    ELSE IF s \in DOMAIN m /\ m[s].pc = "returned" THEN MergeColumns(t, s, m[s].results)
    ELSE FailColumns(t, s)
\* the table enrich_dataframe returns for the input t
enrich_dataframe(t, uniprot, m) ==
    EnrichBlock(EnrichBlock(EnrichBlock(t, "immunogenicity", uniprot, m),
                            "affinity", uniprot, m),
                "uniprot", uniprot, m)

\* the block of a service in one step; what the batch call did is kept
RunBatchLogged(s) ==
    /\ epc = s /\ bpc = "idle"
    /\ Enabled(s, df_result, include_uniprot)
    /\ \E b \in BatchCall(impl, max_workers, request_delay, s, peptides) :
           /\ maps' = [x \in DOMAIN maps \cup {s} |-> IF x = s THEN b ELSE maps[x]]
           /\ IF b.pc = "raised"
              THEN /\ epc' = EnrichExcept(impl, df_result, s).pc
                   /\ df_result' = EnrichExcept(impl, df_result, s).table
                   /\ merged' = IF EnrichExcept(impl, df_result, s).pc = "raised" THEN merged
                                ELSE Append(merged, s)
              ELSE /\ epc' = After(s)
                   /\ df_result' = MergeColumns(df_result, s, b.results)
                   /\ merged' = Append(merged, s)
    /\ dispatched' = Append(dispatched, s)
    /\ UNCHANGED <<age, valVars, now, callVars, cfgVars, peptides, batchVars, obsVars>>

\* the call has ended; enrich_dataframe is called again on the same object
\* with any table and any include_uniprot (followed for a second call)
EnrichAgain ==
    /\ epc \in {"returned", "raised"}
    /\ Len(dispatched) <= Len(Services)
    /\ df' \in Inputs
    /\ include_uniprot' \in BOOLEAN
    /\ epc' = "start" /\ peptides' = <<>> /\ df_result' = EmptyDict
    /\ maps' = <<>> /\ merged' = <<>>
    /\ UNCHANGED <<age, valVars, now, callVars, dispatched, impl, max_workers, request_delay, batchVars, obsVars>>

AgainNext ==
    \/ RejectTable
    \/ EnrichStart
    \/ \E s \in ServiceSet : SkipService(s)
    \/ \E s \in ServiceSet : RunBatchLogged(s)
    \/ EnrichReturn
    \/ EnrichAgain

AgainSpec == Init /\ [][AgainNext]_vars

\* ------------------------------------------ the column assignments alone
\* The assignments of enrich_dataframe that merge the mapping of a service
\* into the table, taken as a function of the table and the mapping.
\* MergeSpec fixes one mapping per service, as the batch calls can return
\* them, and applies the assignments in any order; the latest assignment may
\* be repeated once.
ReturnedMaps(s, peps) == [Range(peps) -> {o.val : o \in Outcomes(s)}]

MergeInit ==
    /\ impl = "APIManager" /\ max_workers = 1 /\ request_delay = 0
    /\ include_uniprot = TRUE
    /\ peptides \in PeptideLists
    /\ df = [peptide |-> peptides]
    /\ df_result = df
    /\ epc = "immunogenicity"
    /\ NoBatch
    /\ calls = <<>> /\ since = <<>>
    /\ exchange = {} /\ outcome = {}
    /\ maps \in {[immunogenicity |-> i, affinity |-> a, uniprot |-> u] :
                    i \in ReturnedMaps("immunogenicity", peptides),
                    a \in ReturnedMaps("affinity", peptides),
                    u \in ReturnedMaps("uniprot", peptides)}
    /\ merged = <<>> /\ dispatched = <<>>
    /\ now = 0
    /\ NoValidation
    /\ age = <<>>

\* df_result[column] = df_result['peptide'].map(scores), for the service s
MergeStep(s) ==
    /\ \A i \in 1..Len(merged) : \A k \in 1..Len(merged) : merged[i] = merged[k] => i = k
    /\ IF merged = <<>> THEN TRUE
       ELSE IF s = merged[Len(merged)] THEN TRUE
       ELSE s \notin Range(merged)
    /\ df_result' = MergeColumns(df_result, s, maps[s])
    /\ merged' = Append(merged, s)
    /\ UNCHANGED <<age, valVars, now, callVars, maps, dispatched, cfgVars, epc, peptides, batchVars, obsVars>>

MergeNext == \E s \in ServiceSet : MergeStep(s)

MergeSpec == MergeInit /\ [][MergeNext]_vars

\* ------------------------------------------------ one batch call, timed
\* A batch call whose time is measured: every job lasts request_delay
\* ticks (the wait of its wrapper; the adapter answers at once), and a
\* thread that can take a step takes it before time passes (submit returns
\* at once, an idle worker thread wakes up as soon as a job is queued).
WaveKeys(n) == [i \in 1..n |-> i]

WaveInit ==
    /\ impl = "APIManager"
    /\ max_workers \in 1..MaxWorkers
    /\ request_delay \in 1..MaxDelay
    /\ include_uniprot = FALSE
    /\ peptides \in {WaveKeys(n) : n \in 1..5}
    /\ df = [peptide |-> peptides]
    /\ df_result = df
    /\ epc = "immunogenicity"
    /\ NoBatch
    /\ calls = <<>> /\ since = <<>>
    /\ exchange = {} /\ outcome = {}
    /\ maps = <<>> /\ merged = <<>> /\ dispatched = <<>>
    /\ now = 0
    /\ NoValidation
    /\ age = <<>>

\* one unit of time passes while every thread is blocked: the submitting
\* thread in as_completed, every worker in time.sleep or on the empty queue
WaveTick ==
    /\ bpc = "collect"
    /\ ~ \E w \in DOMAIN running : Idle(w) /\ Queued # {}
    /\ ~ \E j \in DOMAIN jst : jst[j] = "calling"
    /\ ~ \E j \in DOMAIN jst : jst[j] = "pacing" /\ SleepOver(j)
    /\ \E j \in DOMAIN jst : jst[j] = "pacing"
    /\ slept' = [j \in DOMAIN slept |-> IF jst[j] = "pacing"
                                THEN Min(slept[j] + 1, request_delay) ELSE slept[j]]
    /\ since' = Observed([w \in DOMAIN since |->
                              IF since[w] >= 0 THEN Min(since[w] + 1, request_delay)
                              ELSE since[w]], jst, running)
    /\ now' = now + 1
    /\ UNCHANGED <<age, valVars, callVars, mergeVars, dispatched, cfgVars, enrichVars, service, bpc, submitted, jst, running, fut,
                   results, calls>>

WaveNext ==
    \/ \E s \in ServiceSet : BatchStart(s)
    \/ CreatePool
    \/ Submit
    \/ \E w \in DOMAIN running : StartJob(w)
    \/ WaveTick
    \/ \E w \in DOMAIN running : CallAdapter(w)
    \/ \E w \in DOMAIN running : AdapterReturns(w)
    \/ \E j \in DOMAIN jst : Collect(j)
    \/ BatchReturn

WaveSpec == WaveInit /\ [][WaveNext]_vars

\* ------------------------------------- one batch call, call times recorded
\* A batch call of the affinity service in which the time of every adapter
\* call is kept: Ago(j) is the number of ticks since the adapter call of job
\* j started, 0 until the first tick after the start, counted up to
\* request_delay.
Ago(j) == IF j \in DOMAIN age THEN age[j] ELSE 0

PaceInit ==
    /\ impl = "APIManager"
    /\ max_workers \in 0..MaxWorkers
    /\ request_delay \in 0..MaxDelay
    /\ include_uniprot = FALSE
    /\ peptides \in PeptideLists
    /\ df = [peptide |-> peptides]
    /\ df_result = df
    /\ epc = "affinity"
    /\ NoBatch
    /\ calls = <<>> /\ since = <<>>
    /\ exchange = {} /\ outcome = {}
    /\ maps = <<>> /\ merged = <<>> /\ dispatched = <<>>
    /\ now = 0
    /\ NoValidation
    /\ age = <<>>

\* one unit of time passes for every sleeping job, every worker and every
\* adapter call that has started
PaceTick ==
    /\ bpc \in {"submit", "collect"}
    /\ IF \E j \in DOMAIN jst : jst[j] = "pacing" /\ slept[j] < request_delay
       THEN TRUE
       ELSE \E w \in DOMAIN since : since[w] >= 0 /\ since[w] < request_delay
    /\ slept' = [j \in DOMAIN slept |-> IF jst[j] = "pacing"
                                THEN Min(slept[j] + 1, request_delay) ELSE slept[j]]
    /\ since' = Observed([w \in DOMAIN since |->
                              IF since[w] >= 0 THEN Min(since[w] + 1, request_delay)
                              ELSE since[w]], jst, running)
    /\ age' = [j \in {c \in DOMAIN calls : calls[c] >= 1} |-> Min(Ago(j) + 1, request_delay)]
    /\ UNCHANGED <<valVars, now, callVars, mergeVars, dispatched, cfgVars, enrichVars, service, bpc, submitted, jst, running, fut,
                   results, calls>>

PaceNext ==
    \/ \E s \in ServiceSet : BatchStart(s)
    \/ CreatePool
    \/ Submit
    \/ \E w \in DOMAIN running : StartJob(w)
    \/ PaceTick
    \/ \E w \in DOMAIN running : CallAdapter(w)
    \/ \E w \in DOMAIN running : AdapterReturns(w)
    \/ \E j \in DOMAIN jst : Collect(j)
    \/ BatchReturn

PaceSpec == PaceInit /\ [][PaceNext]_vars

\* ---------------------------------------------------- validate_peptides
\* The peptide column as validate_peptides gets it: the readers have
\* dropped the missing cells, so every cell is a string (astype(str) leaves
\* it as it is), here a sequence of characters: a canonical letter in upper
\* and in lower case, a blank, and a letter that is not an amino acid.
Chars == {"A", "a", " ", "X"}
Strings == UNION {[1..n -> Chars] : n \in 0..MaxLen}
StringTables ==
    {[peptide |-> col] : col \in UNION {[1..n -> Strings] : n \in 0..MaxRows}}

\* the character class of aa_regex
Canonical == {"A", "C", "D", "E", "F", "G", "H", "I", "K", "L", "M", "N", "P",
              "Q", "R", "S", "T", "V", "W", "Y"}

\* str.upper
str_upper(x) ==
    [i \in 1..Len(x) |-> CASE x[i] = "a" -> "A" [] x[i] = "x" -> "X" [] OTHER -> x[i]]
\* str.strip: the blanks before the first and after the last other character go
str_strip(x) ==
    LET solid == {i \in 1..Len(x) : x[i] # " "}
    IN  IF solid = {} THEN <<>>
        ELSE SubSeq(x, CHOOSE i \in solid : \A k \in solid : i <= k,
                       CHOOSE i \in solid : \A k \in solid : k <= i)
\* variant: re.match without the anchor at the end
aa_match_prefix(x) == Len(x) >= 1 /\ x[1] \in Canonical
\* bool(aa_regex.match(x)) for "^[ACDEFGHIKLMNPQRSTVWY]+$"; a stripped string
\* has no newline at its end, so $ is the end of the string
aa_match(x) == Len(x) >= 1 /\ \A i \in 1..Len(x) : x[i] \in Canonical
\* drop_duplicates(subset=['peptide']): of the rows kept so far, the first
\* of every value
drop_duplicates(col, rows) ==
    {i \in rows : \A k \in rows : k < i => col[k] # col[i]}
\* Series.between(lo, hi), both ends included
between(n, lo, hi) == n >= lo /\ n <= hi
\* boolean indexing and reset_index(drop=True): the rows kept, in their order
SelectRows(col, rows) ==
    [k \in 1..Cardinality(rows) |->
        col[CHOOSE i \in rows : Cardinality({r \in rows : r <= i}) = k]]

\* the pairs of min_length and max_length of a call: one that cuts off the
\* long peptides, one that keeps every length, one that cuts off the short
LengthLimits == {<<1, 1>>, <<1, MaxLen>>, <<2, MaxLen>>}

validate_peptides(t, lo, hi) ==
    IF "peptide" \notin columns(t) THEN Raise("ValueError")
    ELSE LET norm == [i \in 1..Len(t["peptide"]) |-> str_strip(str_upper(t["peptide"][i]))]
             valid == {i \in 1..Len(norm) : aa_match(norm[i])}
             first == drop_duplicates(norm, valid)
             sized == {i \in first : between(Len(norm[i]), lo, hi)}
         IN  Return([peptide |-> SelectRows(norm, sized)])

ValidateInit ==
    /\ impl = "APIManager"
    /\ max_workers = 1 /\ request_delay = 0 /\ include_uniprot = FALSE
    /\ df \in StringTables \cup OtherTables
    /\ peptides = <<>>
    /\ df_result = df
    /\ epc = "start"
    /\ NoBatch
    /\ calls = <<>> /\ since = <<>>
    /\ exchange = {} /\ outcome = {}
    /\ maps = <<>> /\ merged = <<>> /\ dispatched = <<>>
    /\ now = 0
    /\ \E lim \in LengthLimits : min_length = lim[1] /\ max_length = lim[2]
    /\ df_valid = {}
    /\ age = <<>>

\* df_valid = validate_peptides(df, min_length, max_length)
Validate ==
    /\ df_valid = {}
    /\ df_valid' = {validate_peptides(df, min_length, max_length)}
    /\ UNCHANGED <<age, min_length, max_length, now, callVars, mergeVars, dispatched, cfgVars, enrichVars, batchVars,
                   obsVars>>

ValidateSpec == ValidateInit /\ [][Validate]_vars

\* ------------------------------------------------- one adapter call alone
\* The adapters are functions of the network exchange.  AdapterSpec makes
\* one call of one adapter: any service, any exchange.
AdapterInit ==
    /\ Init
    /\ max_workers = 1 /\ request_delay = 0 /\ include_uniprot = FALSE
    /\ df = [peptide |-> <<>>]

AdapterCall ==
    /\ exchange = {}
    /\ \E s \in ServiceSet : \E r \in Responses(s) :
           /\ exchange' = {[service |-> s, response |-> r]}
           /\ outcome' = {Adapter(s, r)}
    /\ UNCHANGED <<age, valVars, now, mergeVars, dispatched, cfgVars, enrichVars, batchVars, obsVars>>

AdapterSpec == AdapterInit /\ [][AdapterCall]_vars

\* ------------------------------------------ one remote call, with its time
\* The request of an adapter as the network sees it: the server answers
\* after latency ticks, or never (Never).  requests waits for the answer; with
\* timeout=t it raises Timeout when t has passed, without a timeout
\* argument it goes on waiting.
Never == -1
Latencies == 0..(MaxTimeout + 1) \cup {Never}

\* APIClient.predict_mhcii_iedb: the answer is a table of lines; its ic50
\* cell is "NA", a number, or text float() rejects
MHCIIResponses ==
    [net : {"connerr", "http", "ok"}, cell : {"none", "NA", "number", "bad"}]
\* the list of predictions the method returns: the except branch and a
\* status other than 200 leave it as it is
predict_mhcii_iedb(r) ==
    IF r.net # "ok" THEN Return(<<>>)
    ELSE IF r.cell \in {"none", "bad"} THEN Return(<<>>)
    ELSE IF r.cell = "NA" THEN Return(<<None>>)
    ELSE Return(<<Some(1)>>)

\* the clients of the repository and the timeout argument of their requests
\* call: self.timeout of the manager and of IEDBClient and UniProtClient,
\* none in APIClient
Clients == {"APIManager", "APIClientManager", "APIClient"}
TimeoutArgs(client) ==
    IF client = "APIClient" THEN {None} ELSE {Some(t) : t \in 1..MaxTimeout}
RemoteServices(client) == IF client = "APIClient" THEN {"mhcii"} ELSE ServiceSet
Answers(s) ==
    IF s = "mhcii" THEN MHCIIResponses
    ELSE {r \in Responses(s) : r.net # "timeout"}
RemoteCalls(client) ==
    UNION {[service : {sv}, timeout : TimeoutArgs(client), latency : Latencies,
            response : Answers(sv)] : sv \in RemoteServices(client)}
\* what the adapter returns for the answer, and when the request timed out
Answered(e) ==
    IF e.service = "mhcii" THEN predict_mhcii_iedb(e.response)
    ELSE Adapter(e.service, e.response)
TimedOut(e) == CatchAll(Raise("RequestException"))
\* the time the request has been waiting is within its timeout
InTime(e, t) == \A limit \in e.timeout : t < limit

RemoteInit ==
    /\ impl \in Clients
    /\ max_workers = 1 /\ request_delay = 0 /\ include_uniprot = FALSE
    /\ df = [peptide |-> <<>>]
    /\ peptides = <<>>
    /\ df_result = df
    /\ epc = "start"
    /\ NoBatch
    /\ calls = <<>> /\ since = <<>>
    /\ exchange = {} /\ outcome = {}
    /\ maps = <<>> /\ merged = <<>> /\ dispatched = <<>>
    /\ now = 0
    /\ NoValidation
    /\ age = <<>>

\* session.post(url, data=data, timeout=self.timeout) / requests.post(url, data=data)
RemoteIssue ==
    /\ exchange = {}
    /\ \E e \in RemoteCalls(impl) : exchange' = {e}
    /\ UNCHANGED <<age, valVars, now, outcome, mergeVars, dispatched, cfgVars, enrichVars, batchVars, obsVars>>

\* the request waits for the answer
RemoteWait ==
    /\ outcome = {}
    /\ now <= MaxTimeout + 1
    /\ \E e \in exchange : e.latency # now /\ InTime(e, now)
    /\ now' = now + 1
    /\ UNCHANGED <<age, valVars, callVars, mergeVars, dispatched, cfgVars, enrichVars, batchVars, obsVars>>

\* the answer arrives and the adapter returns
RemoteAnswer ==
    /\ outcome = {}
    /\ \E e \in exchange : e.latency = now /\ outcome' = {Answered(e)}
    /\ UNCHANGED <<age, valVars, now, exchange, mergeVars, dispatched, cfgVars, enrichVars, batchVars, obsVars>>

\* requests raises Timeout and the adapter returns None
RemoteTimeout ==
    /\ outcome = {}
    /\ \E e \in exchange : e.latency # now /\ ~InTime(e, now) /\ outcome' = {TimedOut(e)}
    /\ UNCHANGED <<age, valVars, now, exchange, mergeVars, dispatched, cfgVars, enrichVars, batchVars, obsVars>>

RemoteNext ==
    \/ RemoteIssue
    \/ RemoteWait
    \/ RemoteAnswer
    \/ RemoteTimeout

RemoteSpec == RemoteInit /\ [][RemoteNext]_vars

\* ------------------------------------------------------------ properties
Distinct(p) == \A i \in 1..Len(p) : \A j \in 1..Len(p) : i # j => p[i] # p[j]

\* how the call of job j ended, as the caller of the batch sees it: the
\* value the adapter returned, None when the job raised
JobOutcome(j) == IF fut[j].kind = "return" THEN fut[j].val[2] ELSE None

\* C1: a batch call on distinct keys returns a mapping whose key set is
\* exactly the set of the input keys, one entry per key, whatever the jobs
\* did.
C1_KeySet ==
    (bpc = "returned" /\ Distinct(peptides))
        => /\ DOMAIN results = Range(peptides)
           /\ Cardinality(DOMAIN results) = Len(peptides)

C1_Witness ==
    /\ bpc = "returned" /\ Distinct(peptides) /\ Len(peptides) = 2
    /\ DOMAIN fut = 1..2
    /\ JobOutcome(1) = None /\ JobOutcome(2) # None
    /\ DOMAIN results = {1, 2}

\* C2: in a batch call on distinct keys whose pool was created, every job is
\* run and collected, and the mapping holds for every key the outcome of the
\* job of that key alone: its value when it produced one, None when it
\* failed.  The failure of a job changes nothing for the other keys.
C2_Containment ==
    (bpc = "returned" /\ Distinct(peptides) /\ PoolCreation(max_workers).kind = "return")
        => /\ DOMAIN jst = Jobs
           /\ \A j \in DOMAIN jst :
                  /\ jst[j] = "collected"
                  /\ peptides[j] \in DOMAIN results
                  /\ results[peptides[j]] = JobOutcome(j)

C2_Witness ==
    /\ bpc = "returned" /\ Distinct(peptides) /\ Len(peptides) = 2
    /\ DOMAIN fut = 1..2
    /\ JobOutcome(1) = None /\ JobOutcome(2) # None
    /\ results[peptides[1]] = None /\ results[peptides[2]] = JobOutcome(2)

\* C3: when a batch call has returned, no job of the batch is waiting,
\* queued or running, and every input key has its outcome in the mapping:
\* the call ended in one of the ways BatchCall lists.
C3_Complete ==
    bpc = "returned"
        => /\ \A j \in DOMAIN jst : jst[j] = "collected"
           /\ \A w \in DOMAIN running : running[w] = 0
           /\ Executing = {} /\ Queued = {}
           /\ Range(peptides) \subseteq DOMAIN results
           /\ [pc |-> bpc, results |-> results]
                  \in BatchCall(impl, max_workers, request_delay, service, peptides)

C3_Witness ==
    /\ bpc = "returned" /\ Len(peptides) = 2 /\ max_workers = 1
    /\ DOMAIN calls = 1..2 /\ calls[1] = 1 /\ calls[2] = 1
    /\ DOMAIN results = Range(peptides)

\* C4: at every moment of a batch at most max_workers jobs are executing
\* (in the pacing wait or in the adapter call), each on a worker of its own;
\* every other submitted job is queued or has finished.
C4_Bounded ==
    /\ Cardinality(Executing) <= Cardinality(DOMAIN running)
    /\ DOMAIN running # {} => DOMAIN running = 1..max_workers
    /\ \A j \in Executing : \E w \in DOMAIN running : running[w] = j
    /\ \A j \in DOMAIN jst : j <= submitted /\ j \notin Executing
                                 => jst[j] \in {"queued", "finished", "collected"}

C4_Witness ==
    /\ max_workers = 1 /\ Cardinality(Executing) = 1 /\ Queued # {}

\* C5: every adapter call starts after the pacing wait of its job has run
\* for request_delay, and two consecutive starts on the same worker are at
\* least request_delay apart.
C5_Pacing ==
    [][\A w \in DOMAIN running :
           (running[w] # 0 /\ jst[running[w]] = "pacing" /\ jst'[running[w]] = "calling")
               => /\ slept[running[w]] >= request_delay
                  /\ since[w] = -1 \/ since[w] >= request_delay]_vars

C5_Witness ==
    /\ max_workers = 1 /\ request_delay = MaxDelay /\ DOMAIN jst = 1..2
    /\ jst[1] \in {"finished", "collected"} /\ calls[1] = 1
    /\ jst[2] = "calling" /\ calls[2] = 1
    /\ slept[2] = request_delay

\* C6: the table enrich_dataframe returns for a table of distinct keys has
\* the rows of the input: the same key column in the same order, and one
\* cell per row in every column.
C6_Rows ==
    (epc = "returned" /\ Distinct(df["peptide"]))
        => /\ df_result["peptide"] = df["peptide"]
           /\ \A c \in columns(df_result) : Len(df_result[c]) = Len(df["peptide"])

C6_Witness ==
    /\ epc = "returned" /\ Len(df["peptide"]) = 2 /\ Distinct(df["peptide"])
    /\ df_result["iedb_immunogenicity"][1] = None
    /\ df_result["iedb_immunogenicity"][2] # None
    /\ df_result["peptide"] = <<1, 2>>

\* C7 as stated: when the batch call of a service fails as a whole,
\* enrich_dataframe fills the columns of that service with the failure
\* marker, goes on with the other services and returns the table; it never
\* raises for a table that has the key column.
C7_Graceful ==
    /\ (epc = "raised" => "peptide" \notin columns(df))
    /\ (epc = "returned" /\ PoolCreation(max_workers).kind = "raise")
           => /\ "iedb_immunogenicity" \in columns(df_result)
              /\ AllNa(df_result["iedb_immunogenicity"])

\* C8: an adapter call always returns: a value or the failure marker None,
\* never an exception, whatever the network exchange.
C8_NoEscape ==
    \A o \in outcome : o.kind = "return"

C8_Witness ==
    /\ \E x \in exchange :
           /\ x.service = "immunogenicity"
           /\ x.response.net = "ok" /\ x.response.json = "dict"
           /\ x.response.primary = Bad /\ x.response.text = Bad
    /\ outcome = {Return(None)}

C10_Distinguishable ==
    [][\A s \in ServiceSet :
           (epc = s /\ service = s /\ bpc = "returned" /\ epc' = After(s))
               => \A i \in 1..Len(peptides) : \A k \in 1..Len(peptides) :
                      (results[peptides[i]] = None /\ results[peptides[k]] # None)
                          => \E c \in columns(df_result') \ columns(df_result) :
                                 df_result'[c][i] # df_result'[c][k]]_vars

\* C11: assigning the columns of a service from the same mapping a second
\* time leaves the table as the first assignment made it.
C11_Idempotent ==
    [][(merged # <<>> /\ merged' = Append(merged, merged[Len(merged)]))
           => df_result' = df_result]_vars

C11_Witness ==
    /\ merged = <<"immunogenicity", "immunogenicity">>
    /\ Len(peptides) = 2
    /\ df_result["iedb_immunogenicity"][1] = None
    /\ df_result["iedb_immunogenicity"][2] # None

\* C12: for fixed mappings, the table obtained by assigning the columns of
\* the three services is the same whatever the order of the assignments: it
\* is the table of the order immunogenicity, affinity, annotation lookup.
C12_OrderIndependent ==
    (Len(merged) = 3 /\ Range(merged) = ServiceSet)
        => df_result =
               MergeColumns(MergeColumns(MergeColumns(df, "immunogenicity",
                   maps["immunogenicity"]), "affinity", maps["affinity"]),
                   "uniprot", maps["uniprot"])

C12_Witness ==
    /\ merged = <<"uniprot", "affinity", "immunogenicity">>
    /\ Len(peptides) = 2
    /\ df_result["iedb_immunogenicity"] # df_result["iedb_affinity_nm"]
    /\ df_result["uniprot_found"] = <<TRUE, FALSE>>

\* C13: in a call of enrich_dataframe that returns, the affinity batch was
\* dispatched exactly when the input table holds no affinity value (no
\* affinity_nm column, or only missing cells in it); it is dispatched in no
\* other case, and when it was not dispatched the table has no
\* iedb_affinity_nm column.
C13_AffinityGate ==
    LET present == IF "affinity_nm" \in columns(df)
                   THEN \E i \in 1..Len(df["affinity_nm"]) : df["affinity_nm"][i] # None
                   ELSE FALSE
    IN  /\ "affinity" \in Range(dispatched) => ~present
        /\ epc = "returned"
               => /\ "affinity" \in Range(dispatched) <=> ~present
                  /\ "affinity" \notin Range(dispatched)
                         => "iedb_affinity_nm" \notin columns(df_result)

C13_Witness ==
    /\ epc = "returned"
    /\ "affinity_nm" \in columns(df)
    /\ df["affinity_nm"] = <<Some(1), None>>
    /\ dispatched = <<"immunogenicity">>
    /\ "iedb_affinity_nm" \notin columns(df_result)

\* C14: in a call of enrich_dataframe that returns, the columns added to
\* the input are exactly the columns of the services that were dispatched;
\* without include_uniprot the annotation lookup is not dispatched and the
\* table has no uniprot_found and no uniprot_id column.
C14_NoTrace ==
    LET group(s) == CASE s = "immunogenicity" -> {"iedb_immunogenicity"}
                      [] s = "affinity" -> {"iedb_affinity_nm"}
                      [] s = "uniprot" -> {"uniprot_found", "uniprot_id"}
    IN  /\ ~include_uniprot => "uniprot" \notin Range(dispatched)
        /\ epc = "returned"
               => /\ columns(df_result) \ columns(df)
                         = UNION {group(s) : s \in Range(dispatched)}
                  /\ ~include_uniprot
                         => columns(df_result) \cap {"uniprot_found", "uniprot_id"} = {}

C14_Witness ==
    /\ epc = "returned" /\ ~include_uniprot
    /\ Len(peptides) = 2
    /\ dispatched = <<"immunogenicity", "affinity">>
    /\ columns(df_result) = {"peptide", "affinity_nm", "iedb_immunogenicity", "iedb_affinity_nm"}

\* C15: the services run one after the other.  The jobs that exist belong
\* to the service whose block enrich_dataframe is in; a batch is dispatched
\* only when no job of an earlier batch is left and the columns of every
\* service dispatched before were assigned; and enrich_dataframe leaves the
\* block of a service only when every job of its batch was collected.
C15_Sequential ==
    [][/\ DOMAIN jst # {} => service = epc
       /\ dispatched' # dispatched
              => /\ DOMAIN jst = {}
                 /\ \A w \in DOMAIN running : running[w] = 0
                 /\ Range(dispatched) \subseteq Range(merged)
       /\ (epc \in ServiceSet /\ epc' # epc)
              => \A j \in DOMAIN jst : jst[j] = "collected"]_vars

C15_Witness ==
    /\ epc = "affinity" /\ service = "affinity"
    /\ merged = <<"immunogenicity">>
    /\ "iedb_immunogenicity" \in columns(df_result)
    /\ DOMAIN jst = 1..2 /\ jst[1] = "calling" /\ jst[2] = "calling"

\* C16: every service goes through Pending (0: its batch was not called),
\* Dispatching (1: its batch was called and has not returned a mapping),
\* Drained (2: the batch returned its mapping) and Merged (3: its columns
\* were assigned) one step at a time and never backwards; its batch is
\* called at most once, also when the call failed; jobs exist only for a
\* service that is Dispatching.
C16_Lifecycle ==
    [][LET phase(s, mg, sv, pc, dp) ==
               IF s \in Range(mg) THEN 3
               ELSE IF sv = s /\ pc = "returned" THEN 2
               ELSE IF s \in Range(dp) THEN 1
               ELSE 0
       IN  \A s \in ServiceSet :
               /\ phase(s, merged', service', bpc', dispatched')
                      \in {phase(s, merged, service, bpc, dispatched),
                           phase(s, merged, service, bpc, dispatched) + 1}
               /\ Cardinality({i \in 1..Len(dispatched') : dispatched'[i] = s}) <= 1
               /\ (service = s /\ \E j \in DOMAIN jst : jst[j] # "collected")
                      => phase(s, merged, service, bpc, dispatched) = 1]_vars

C16_Witness ==
    /\ epc = "returned"
    /\ dispatched = <<"immunogenicity", "affinity", "uniprot">>
    /\ merged = <<"immunogenicity", "affinity", "uniprot">>
    /\ Len(peptides) = 2 /\ max_workers = 2

\* C17: no partially populated table leaves enrich_dataframe.  The columns
\* of a service are assigned only when its batch call has ended with every
\* job collected and every worker idle; when enrich_dataframe returns, no
\* batch is open, every service that was dispatched has its columns in the
\* table and each of them has one cell per peptide; a call that raised
\* never returns a table afterwards and the table of the caller carries
\* none of the added columns.
C17_NoPartialTable ==
    [][LET group(s) == CASE s = "immunogenicity" -> {"iedb_immunogenicity"}
                         [] s = "affinity" -> {"iedb_affinity_nm"}
                         [] s = "uniprot" -> {"uniprot_found", "uniprot_id"}
       IN  /\ merged' # merged
                  => /\ bpc \in {"returned", "raised"}
                     /\ \A j \in DOMAIN jst : jst[j] = "collected"
                     /\ \A w \in DOMAIN running : running[w] = 0
           /\ epc' = "returned"
                  => /\ bpc' = "idle" /\ jst' = <<>>
                     /\ \A s \in Range(dispatched') :
                            /\ s \in Range(merged')
                            /\ \A c \in group(s) :
                                   /\ c \in columns(df_result')
                                   /\ DOMAIN df_result'[c] = 1..Len(peptides')
           /\ epc = "raised"
                  => /\ epc' = "raised"
                     /\ columns(df) \cap UNION {group(s) : s \in ServiceSet} = {}]_vars

C17_Witness ==
    /\ epc = "returned" /\ include_uniprot
    /\ Len(peptides) = 2 /\ max_workers = 1
    /\ dispatched = <<"immunogenicity", "uniprot">>
    /\ df_result["uniprot_found"] = <<TRUE, FALSE>>
    /\ df_result["iedb_immunogenicity"] = <<None, Some(ScoreHigh)>>

C19_Waves ==
    LET n == Len(peptides)
        p == max_workers
        d == request_delay
        waves == (n + p - 1) \div p
        left == {j \in DOMAIN jst : jst[j] \notin {"new", "queued"}}
    IN  /\ now <= waves * d
        /\ Cardinality(left) <= p * ((now \div d) + 1)
        /\ bpc = "returned" => now = waves * d

C19_Witness ==
    /\ bpc = "returned"
    /\ Len(peptides) = 5 /\ max_workers = 2
    /\ now = 3 * request_delay
    /\ \A j \in DOMAIN calls : calls[j] = 1

\* C20: the table validate_peptides returns is a valid list of keys.  No
\* peptide occurs twice; every peptide is made of canonical letters only and
\* its length lies between min_length and max_length; every peptide is the
\* upper-cased, stripped form of an input cell; and the peptides stand in
\* the order in which their first input cells stand.
C20_ValidKeys ==
    \A r \in df_valid :
        r.kind = "return" =>
            LET out == r.val["peptide"]
                inp == df["peptide"]
                from(x) == {k \in 1..Len(inp) : str_strip(str_upper(inp[k])) = x}
                origin(x) == CHOOSE k \in from(x) : \A o \in from(x) : k <= o
            IN  /\ Distinct(out)
                /\ \A i \in 1..Len(out) :
                       /\ \A c \in 1..Len(out[i]) : out[i][c] \in Canonical
                       /\ Len(out[i]) >= min_length /\ Len(out[i]) <= max_length
                       /\ from(out[i]) # {}
                /\ \A i \in 1..Len(out) : \A j \in 1..Len(out) :
                       i < j => origin(out[i]) < origin(out[j])

\* two rows that differ in case and blanks only give one peptide
C20_Witness ==
    /\ df = [peptide |-> << <<"a", " ">>, <<"A">> >>]
    /\ min_length = 1 /\ max_length = 2
    /\ df_valid = {Return([peptide |-> << <<"A">> >>])}

\* C21: the parsing of an IEDB answer is an ordered chain.  The value is the
\* primary field when it is there; the secondary field when the primary is
\* missing; and when the answer has neither field, whether it is a JSON
\* container or not, what the scan of the text finds, None only when the
\* scan finds nothing it accepts.
C21_FallbackChain ==
    \A e \in exchange : \A o \in outcome :
        (e.service \in {"immunogenicity", "affinity"} /\ e.response.net = "ok") =>
            LET r == e.response
                scan == IF e.service = "immunogenicity" THEN ImmunogenicityFallback(r)
                        ELSE AffinityFallback(r)
                scanned == IF scan.kind = "return" THEN scan.val ELSE None
            IN  /\ (r.json = "dict" /\ r.primary.present /\ r.primary.numeric)
                       => o = Return(Some(r.primary.v))
                /\ (r.json = "dict" /\ ~r.primary.present
                        /\ r.secondary.present /\ r.secondary.numeric)
                       => o = Return(Some(r.secondary.v))
                /\ (r.json # "dict" \/ (~r.primary.present /\ ~r.secondary.present))
                       => o = Return(scanned)

\* C22: outcomes are written once.  In a batch call on distinct keys every
\* step keeps each entry of the mapping as it is, so the mapping only grows,
\* and the collection of a job is the one write of its key: the key is not in
\* the mapping before and is the only key added.  Apart from these writes
\* the mapping changes only when the pool cannot be created, from empty.
C22_WriteOnce ==
    [][Distinct(peptides) =>
          /\ \A k \in DOMAIN results :
                 k \in DOMAIN results' /\ results'[k] = results[k]
          /\ \A j \in DOMAIN jst \cap DOMAIN jst' :
                 (jst[j] # "collected" /\ jst'[j] = "collected")
                     => /\ peptides[j] \notin DOMAIN results
                        /\ DOMAIN results' = DOMAIN results \cup {peptides[j]}
          /\ (\A j \in DOMAIN jst \cap DOMAIN jst' : jst[j] = "collected" <=> jst'[j] = "collected")
                 => \/ results' = results
                    \/ (results = EmptyDict /\ bpc = "called")]_vars

\* the second job was collected first: its entry is written and stays while
\* the first job is still in its adapter call
C22_Witness ==
    /\ bpc = "collect" /\ Distinct(peptides) /\ Len(peptides) = 2
    /\ jst = <<"calling", "collected">>
    /\ DOMAIN results = {peptides[2]}
    /\ results[peptides[2]] # None

\* C23: the mapping of a batch call on distinct keys is a function of the
\* outcomes of the jobs alone.  At every moment it holds exactly the keys of
\* the jobs collected so far, each with the outcome of its own job, whatever
\* the order in which the workers ran the jobs and the futures arrived; so
\* the mapping returned is the same for every interleaving.
C23_Interleaving ==
    (Distinct(peptides) /\ DOMAIN jst # {}) =>
        LET done == {j \in DOMAIN jst : jst[j] = "collected"}
            job(k) == CHOOSE j \in done : peptides[j] = k
        IN  /\ results = [k \in {peptides[j] : j \in done} |-> JobOutcome(job(k))]
            /\ bpc = "returned" => done = Jobs

\* the future of the second job arrived first and the two jobs ended
\* differently
C23_Witness ==
    /\ bpc = "collect" /\ Distinct(peptides) /\ Len(peptides) = 2
    /\ max_workers = 2
    /\ jst = <<"finished", "collected">>
    /\ JobOutcome(1) = None /\ JobOutcome(2) # None
    /\ results = [k \in {peptides[2]} |-> JobOutcome(2)]

\* C24: inside one batch call the mapping of the results is the only
\* mutable object that two jobs running at the same time touch; an adapter
\* call touches no object another worker touches.
C24_OnlyResultsShared ==
    \A j \in Executing : \A o \in Executing :
        j # o => Touched(j) \cap Touched(o) \subseteq {"results"}

\* C25: pacing bounds the rate of a batch by worker.  With a positive
\* request_delay, the adapter calls that started less than request_delay
\* ticks ago are never more than max_workers: every worker thread starts at
\* most one call in any window shorter than request_delay.  Nothing spaces
\* the calls of different workers, which may start in the same instant.
C25_RateBound ==
    request_delay >= 1 =>
        Cardinality({j \in DOMAIN calls : calls[j] >= 1 /\ Ago(j) < request_delay})
            <= max_workers

\* two workers have started their adapter calls in the same instant
C25_Witness ==
    /\ request_delay = MaxDelay /\ max_workers = 2
    /\ jst = <<"calling", "calling">>
    /\ calls = <<1, 1>>
    /\ Ago(1) = 0 /\ Ago(2) = 0

\* C26: every remote call has an explicit timeout and is over when the
\* timeout has passed: a request that is still waiting was issued with a
\* timeout argument and has waited no longer than that.
C26_Timeout ==
    \A e \in exchange :
        outcome = {} => /\ e.timeout # None
                        /\ \A limit \in e.timeout : now <= limit

\* C27: a batch call ends, and only when it is complete.  Under fair
\* scheduling every batch call comes to an end; it returns whenever its pool
\* could be created, and a call that has returned has no job waiting, queued
\* or running and holds an outcome for every key: nothing returns the
\* mapping while keys are open.
C27_Terminates ==
    /\ <>(bpc \in {"returned", "raised"})
    /\ (PoolCreation(max_workers).kind = "return") => <>(bpc = "returned")
    /\ [](bpc = "returned"
              => /\ \A j \in DOMAIN jst : jst[j] = "collected"
                 /\ \A w \in DOMAIN running : running[w] = 0
                 /\ Range(peptides) \subseteq DOMAIN results)

\* two jobs on one worker with a pacing wait have both been run and
\* collected, and the call has returned
C27_Witness ==
    /\ bpc = "returned" /\ service = "affinity"
    /\ max_workers = 1 /\ request_delay = MaxDelay
    /\ Len(peptides) = 2 /\ calls = <<1, 1>>
    /\ jst = <<"collected", "collected">>

C29_RejectedBeforeWork ==
    "peptide" \notin columns(df)
        => /\ epc \in {"start", "raised"}
           /\ df_result = EmptyDict /\ peptides = <<>>
           /\ dispatched = <<>> /\ merged = <<>> /\ maps = <<>>
           /\ service = "none" /\ bpc = "idle" /\ submitted = 0
           /\ running = <<>> /\ jst = <<>> /\ fut = <<>>
           /\ slept = <<>> /\ calls = <<>> /\ since = <<>>
           /\ results = EmptyDict

\* the call has raised for a table of one row that has only affinity_nm
C29_Witness ==
    /\ epc = "raised"
    /\ columns(df) = {"affinity_nm"} /\ NumRows(df) = 1
    /\ max_workers = MaxWorkers /\ request_delay = MaxDelay
    /\ dispatched = <<>> /\ running = <<>>

====
